---- MODULE Spec2Model ----
(***************************************************************************)
(* A model of ImageCompressor.batch_compress and compress_image            *)
(* (src/compression.py): the main thread that filters, submits and         *)
(* collects, the ThreadPoolExecutor's workers that run compress_image, the *)
(* shared `processed` counter of process_callback, the event stream that   *)
(* reaches the caller's callback, and the file system the jobs read and    *)
(* write.                                                                  *)
(*                                                                         *)
(* Paths are sequences of one-character strings, so that str.lower,        *)
(* str.endswith, os.path.basename, dirname, splitext and join are computed *)
(* as posixpath computes them.  Python dicts are records whose DOMAIN is   *)
(* the dict's key set.  Threads are numbered: 0 is the caller of           *)
(* batch_compress, i >= 1 is the pool job submitted for input_files[i].    *)
(* A statement that only touches a thread's locals is folded into the next *)
(* step of that thread that touches shared state.  Spec has a callback     *)
(* that returns normally; LibSpec also has callbacks that raise; GuiSpec   *)
(* is the MainWindow with its buttons, file list and workers.              *)
(***************************************************************************)
EXTENDS Integers, Sequences, FiniteSets, TLC

\* ------------------------------------------------------------------ bounds
\* Longest input list, largest max_workers (max_workers=None makes the pool
\* larger than any batch here and behaves as MaxWorkers does), number of
\* input paths that may name no file.  An environment fault is injected only
\* into batches run by one worker, and not together with an absent input.
MaxFiles == 2
MaxWorkers == 2
MaxMissing == 1

\* ------------------------------------------------------- strings and paths
Str_a_PNG == <<"a", ".", "P", "N", "G">>
Str_d_a_PNG == <<"d", "/", "a", ".", "P", "N", "G">>
Str_d_a_compressed_PNG ==
    <<"d", "/", "a", "_", "c", "o", "m", "p", "r", "e", "s", "s", "e", "d", ".", "P", "N", "G">>
Str_c_jpg == <<"c", ".", "j", "p", "g">>
Str_d == <<"d">>

\* The paths a batch is drawn from, the directories -o may name.
PathPool == {Str_a_PNG, Str_d_a_PNG, Str_d_a_compressed_PNG, Str_c_jpg}

\* Python's None where a path is expected (no path is this sequence).
None == <<"None">>

OutputDirs == {None, Str_d}

DotPng == <<".", "p", "n", "g">>
CompressedSuffix == <<"_", "c", "o", "m", "p", "r", "e", "s", "s", "e", "d">>

\* str.lower on one character of the alphabet in use.
LowerChar(c) ==
    CASE c = "P" -> "p"
      [] c = "N" -> "n"
      [] c = "G" -> "g"
      [] OTHER -> c

Lower(s) == [k \in 1..Len(s) |-> LowerChar(s[k])]

\* s.endswith(suffix)
EndsWith(s, suffix) ==
    /\ Len(suffix) <= Len(s)
    /\ SubSeq(s, Len(s) - Len(suffix) + 1, Len(s)) = suffix

\* Mutant of IsPng: the extension is compared without lower().
IsPngCaseSensitive(path) == EndsWith(path, DotPng)

\* input_path.lower().endswith('.png')
IsPng(path) == EndsWith(Lower(path), DotPng)

\* Index of the last occurrence of character c in s, 0 when there is none
\* (str.rfind, one-based).
RFind(s, c) ==
    LET hits == {k \in 1..Len(s) : s[k] = c}
    IN  IF hits = {} THEN 0 ELSE CHOOSE k \in hits : \A m \in hits : m <= k

\* posixpath.basename: what follows the last "/".
Basename(p) == SubSeq(p, RFind(p, "/") + 1, Len(p))

\* posixpath.dirname: what precedes the last "/", trailing slashes stripped
\* unless the head is all slashes.
RECURSIVE RStripSlash(_)
RStripSlash(s) ==
    IF s # <<>> /\ s[Len(s)] = "/" THEN RStripSlash(SubSeq(s, 1, Len(s) - 1)) ELSE s

Dirname(p) ==
    LET head == SubSeq(p, 1, RFind(p, "/"))
    IN  IF head # <<>> /\ (\E k \in 1..Len(head) : head[k] # "/")
        THEN RStripSlash(head)
        ELSE head

\* posixpath.splitext (genericpath._splitext): split at the last dot unless
\* it precedes the last "/" or only dots lie between that "/" and it.
Splitext(p) ==
    LET sepIndex == RFind(p, "/")
        dotIndex == RFind(p, ".")
    IN  IF /\ dotIndex > sepIndex
           /\ \E k \in (sepIndex + 1)..(dotIndex - 1) : p[k] # "."
        THEN <<SubSeq(p, 1, dotIndex - 1), SubSeq(p, dotIndex, Len(p))>>
        ELSE <<p, <<>>>>

\* posixpath.join(a, b)
Join(a, b) ==
    IF b # <<>> /\ b[1] = "/" THEN b
    ELSE IF a = <<>> \/ a[Len(a)] = "/" THEN a \o b
    ELSE a \o <<"/">> \o b

\* Mutant of CompressedName: the suffix is appended after the extension.
CompressedNameAfterExt(input_path) == Basename(input_path) \o CompressedSuffix

\* f"{name}_compressed{ext}" of the file name of input_path
CompressedName(input_path) ==
    LET filename == Basename(input_path)
        ne == Splitext(filename)
    IN  ne[1] \o CompressedSuffix \o ne[2]

\* compress_image's default output path
DefaultOutputPath(input_path) == Join(Dirname(input_path), CompressedName(input_path))

\* Mutant of BatchOutputPath: the file name keeps only the extension of the
\* input.
BatchOutputPathWithoutName(input_path, outdir) ==
    IF outdir # None /\ outdir # <<>>
    THEN Join(outdir, CompressedSuffix \o Splitext(Basename(input_path))[2])
    ELSE None

\* batch_compress's output path for an accepted input
BatchOutputPath(input_path, outdir) ==
    IF outdir # None /\ outdir # <<>>
    THEN Join(outdir, CompressedName(input_path))
    ELSE None

\* dict merge {**r1, **r2}
Merge(r1, r2) ==
    [k \in DOMAIN r1 \cup DOMAIN r2 |-> IF k \in DOMAIN r2 THEN r2[k] ELSE r1[k]]

\* ------------------------------------------------------------ environment
\* Sizes in bytes are powers of two, so that the float quotient
\* size_reduction / original_size * 100 is exact.
FileSizes == {2}
\* The size of what img.save leaves on disk.
CodecSizes == {1}
\* A path that names no file.
Missing == -1

\* The steps of compress_image where the environment can make a call raise.
FaultSteps == {"getsize_in", "open", "makedirs", "save", "getsize_out"}
NoFault == [job |-> 0, step |-> "none"]

\* Every path a job can read or write.
AllPaths ==
    PathPool
    \cup {DefaultOutputPath(p) : p \in PathPool}
    \cup {Join(d, CompressedName(p)) : p \in PathPool, d \in OutputDirs \ {None}}

\* The paths the batches of the fairness specification are drawn from.
FairPool == {Str_d_a_PNG, Str_c_jpg}

\* Lists of at most n paths of a pool.
SeqsUpTo(pool, n) == UNION {[1..k -> pool] : k \in 0..n}

Range(f) == {f[k] : k \in DOMAIN f}

Threads == 0..MaxFiles
Jobs == 1..MaxFiles

\* ------------------------------------------------------------------ state
VARIABLES
    input_files,   \* batch_compress argument
    output_dir,    \* batch_compress argument (None when not given)
    max_workers,   \* batch_compress argument
    callback,      \* TRUE when the caller passed a callback
    fault,         \* the job and step where the environment fails, if any
    absent,        \* the input paths that name no file when the batch starts
    raises,        \* the event statuses for which the caller's callback raises
    optimization_level,  \* self.optimization_level
    fs,            \* path -> size of the file, Missing when there is none
    dirs,          \* directories that exist
    pc,            \* thread -> position in its code
    loc,           \* thread -> its local variables
    idx,           \* position of the for loop over input_files (line 146)
    collected,     \* number of futures whose result was appended (line 174)
    futures,       \* batch_compress's futures: job numbers in submission order
    results,       \* batch_compress's results list
    processed,     \* the nonlocal counter of process_callback
    events,        \* what the caller's callback received, in order
    emitters,      \* the thread that delivered each element of events
    writes,        \* <<job, path>> for every file a job opened for writing
    summary,       \* what cli_main computes from the returned results
    window         \* the MainWindow of the GUI: its file list, buttons, workers

vars == <<input_files, output_dir, max_workers, callback, fault, absent, raises,
          optimization_level, fs, dirs, pc, loc, idx, collected, futures,
          results, processed, events, emitters, writes, summary, window>>

args == <<input_files, output_dir, max_workers, callback, fault, absent, raises,
          optimization_level>>

total_files == Len(input_files)

NoEvent == [status |-> "none"]
NoResult == [pending |-> TRUE]
NoSummary == [pending |-> TRUE]

\* The number of CompressionWorkers start_compression may create.
MaxBatches == 2

Workers == 1..MaxBatches

\* Lines 253-259, 342-343: MainWindow.__init__; the Compress button starts
\* disabled, the other buttons enabled, and no worker exists.
MainWindowInit ==
    [input_files |-> <<>>,
     compress_btn |-> FALSE,
     add_files_btn |-> TRUE,
     clear_files_btn |-> TRUE,
     out_dir_btn |-> TRUE,
     current_worker |-> 0,
     workers |-> [w \in Workers |-> "none"]]

\* Line 29: optimization_level=6
DefaultLevel == 6

\* The statuses of the events a callback receives.
Statuses == {"batch_started", "started", "processing", "completed", "error",
             "batch_completed"}

InitLocals ==
    [output_path |-> None, original_size |-> 0,
     ev |-> NoEvent, tmp |-> 0, ret |-> "none", result |-> NoResult]

\* A batch over the paths of pool, run on ImageCompressor(level) for a level
\* of levels, with a callback that raises for the statuses of one set of
\* raiseSets.
InitWith(pool, raiseSets, levels) ==
    /\ input_files \in SeqsUpTo(pool, MaxFiles)
    /\ output_dir \in OutputDirs
    /\ max_workers \in 0..MaxWorkers
    /\ callback \in BOOLEAN
    /\ raises \in raiseSets
    /\ raises # {} => callback
    /\ optimization_level \in levels
    /\ fault \in {NoFault} \cup
                 {[job |-> j, step |-> s] :
                    j \in 1..(IF max_workers = 1 THEN Len(input_files) ELSE 0),
                    s \in FaultSteps}
    /\ absent \in SUBSET {p \in Range(input_files) : IsPng(p)}
    /\ Cardinality(absent) <= (IF fault = NoFault THEN MaxMissing ELSE 0)
    /\ \E size \in FileSizes :
          fs = [p \in AllPaths |->
                  IF p \in PathPool /\ p \notin absent THEN size ELSE Missing]
    /\ dirs = {Dirname(p) : p \in {q \in PathPool : Dirname(q) # <<>>}}
    /\ pc = [t \in Threads |-> IF t = 0 THEN "start" ELSE "idle"]
    /\ loc = [t \in Threads |-> InitLocals]
    /\ idx = 1
    /\ collected = 0
    /\ futures = <<>>
    /\ results = <<>>
    /\ processed = 0
    /\ events = <<>>
    /\ emitters = <<>>
    /\ writes = {}
    /\ summary = NoSummary
    /\ window = MainWindowInit

\* The batches of the command line: a level of 1..9 and a callback that
\* returns normally.
InitFrom(pool) == InitWith(pool, {{}}, {DefaultLevel})

Init == InitFrom(PathPool)

\* ------------------------------------------------ process_callback (136-141)
\* overall_progress = processed / total_files * 100, kept as the exact
\* fraction <<numerator, denominator>>.
Ratio(n, d) == <<n, d>>

\* Thread t calls process_callback(ev) and continues at ret afterwards.
Call(t, ev, ret, result) ==
    /\ pc' = [pc EXCEPT ![t] = "cb_read"]
    /\ loc' = [loc EXCEPT ![t].ev = ev, ![t].ret = ret, ![t].result = result]

\* Lines 105-114: the except clause builds error_result and reports it.
ErrorResult(i, msg) ==
    [input_path |-> input_files[i], output_path |-> loc[i].output_path,
     error |-> msg, success |-> FALSE]

\* Mutant of Raise: the except clause returns error_result without reporting
\* it to the callback.
RaiseUnreported(i, msg) ==
    /\ pc' = [pc EXCEPT ![i] = "done"]
    /\ loc' = [loc EXCEPT ![i].result = ErrorResult(i, msg)]

Raise(i, msg) ==
    Call(i, Merge([status |-> "error"], ErrorResult(i, msg)), "done", ErrorResult(i, msg))

\* processed += 1 is a load, an add and a store: the load.
CbRead(t) ==
    /\ pc[t] = "cb_read"
    /\ loc' = [loc EXCEPT ![t].tmp = processed]
    /\ pc' = [pc EXCEPT ![t] = "cb_write"]
    /\ UNCHANGED <<args, summary, window, fs, dirs, idx, collected, futures, results, processed,
                   events, emitters, writes>>

\* processed += 1: the store.  Without a caller's callback the function ends.
CbWrite(t) ==
    /\ pc[t] = "cb_write"
    /\ processed' = loc[t].tmp + 1
    /\ pc' = [pc EXCEPT ![t] = IF callback THEN "cb_progress" ELSE loc[t].ret]
    /\ loc' = [loc EXCEPT ![t].tmp = 0, ![t].ev = IF callback THEN @ ELSE NoEvent]
    /\ UNCHANGED <<args, summary, window, fs, dirs, idx, collected, futures, results,
                   events, emitters, writes>>

\* result["overall_progress"] = processed / total_files * 100
CbProgress(t) ==
    /\ pc[t] = "cb_progress"
    /\ loc' = [loc EXCEPT ![t].ev =
                 Merge(@, [overall_progress |-> Ratio(processed * 100, total_files)])]
    /\ pc' = [pc EXCEPT ![t] = "cb_emit"]
    /\ UNCHANGED <<args, summary, window, fs, dirs, idx, collected, futures, results, processed,
                   events, emitters, writes>>

\* callback(result).  When the callback raises: in the caller's thread the
\* exception leaves the loop over input_files; in a job it is caught by the
\* except clause of compress_image (line 105), unless it was raised there
\* (line 113), and then it leaves compress_image and is kept by the future.
CbEmit(t) ==
    /\ pc[t] = "cb_emit"
    /\ events' = Append(events, loc[t].ev)
    /\ emitters' = Append(emitters, t)
    /\ IF loc[t].ev.status \notin raises
       THEN /\ pc' = [pc EXCEPT ![t] = loc[t].ret]
            /\ loc' = [loc EXCEPT ![t].ev = NoEvent]
       ELSE IF t = 0
       THEN /\ pc' = [pc EXCEPT ![t] = "unwinding"]
            /\ loc' = [loc EXCEPT ![t].ev = NoEvent]
       ELSE IF loc[t].ev.status = "error"
       THEN /\ pc' = [pc EXCEPT ![t] = "raised"]
            /\ loc' = [loc EXCEPT ![t].ev = NoEvent, ![t].result = NoResult]
       ELSE Raise(t, "callback failed")
    /\ UNCHANGED <<args, summary, window, fs, dirs, idx, collected, futures, results,
                   processed, writes>>

\* ------------------------------------------------- batch_compress (129-181)
\* Line 133: callback({"status": "batch_started", "total": total_files})
BatchStarted ==
    /\ pc[0] = "start"
    /\ IF callback
       THEN /\ events' = Append(events, [status |-> "batch_started", total |-> total_files])
            /\ emitters' = Append(emitters, 0)
       ELSE UNCHANGED <<events, emitters>>
    /\ pc' = [pc EXCEPT ![0] =
                 IF callback /\ "batch_started" \in raises THEN "raised" ELSE "executor"]
    /\ UNCHANGED <<args, summary, window, fs, dirs, loc, idx, collected, futures, results,
                   processed, writes>>

\* Mutant of CreateExecutor: the executor is also refused for an empty batch.
CreateExecutorNeedsFiles ==
    /\ pc[0] = "executor"
    /\ pc' = [pc EXCEPT ![0] =
                 IF max_workers <= 0 \/ total_files = 0 THEN "raised" ELSE "loop"]
    /\ UNCHANGED <<args, summary, window, fs, dirs, loc, idx, collected, futures,
                   results, processed, events, emitters, writes>>

\* Line 143: ThreadPoolExecutor(max_workers=max_workers) raises ValueError
\* for max_workers <= 0, and batch_compress ends with that exception.
CreateExecutor ==
    /\ pc[0] = "executor"
    /\ pc' = [pc EXCEPT ![0] = IF max_workers <= 0 THEN "raised" ELSE "loop"]
    /\ UNCHANGED <<args, summary, window, fs, dirs, loc, idx, collected, futures, results,
                   processed, events, emitters, writes>>

\* Lines 147-156: a path that is not a PNG is recorded at once.
RejectedResult(input_path) ==
    [input_path |-> input_path, error |-> "Not a PNG file", success |-> FALSE]

Reject ==
    /\ pc[0] = "loop"
    /\ idx <= total_files
    /\ ~IsPng(input_files[idx])
    /\ results' = Append(results, RejectedResult(input_files[idx]))
    /\ idx' = idx + 1
    /\ IF callback
       THEN Call(0, Merge([status |-> "error"], RejectedResult(input_files[idx])),
                 "loop", NoResult)
       ELSE UNCHANGED <<pc, loc>>
    /\ UNCHANGED <<args, summary, window, fs, dirs, collected, futures, processed, events,
                   emitters, writes>>

\* Lines 158-171: executor.submit(self.compress_image, input_path, output_path,
\* process_callback); the job waits in the pool's queue.
Submit ==
    /\ pc[0] = "loop"
    /\ idx <= total_files
    /\ IsPng(input_files[idx])
    /\ loc' = [loc EXCEPT ![idx].output_path = BatchOutputPath(input_files[idx], output_dir)]
    /\ pc' = [pc EXCEPT ![idx] = "queued"]
    /\ futures' = Append(futures, idx)
    /\ idx' = idx + 1
    /\ UNCHANGED <<args, summary, window, fs, dirs, collected, results, processed, events,
                   emitters, writes>>

\* Mutant of Collect: the result of a future is taken but not appended.
CollectLost ==
    /\ pc[0] = "loop"
    /\ idx > total_files
    /\ collected < Len(futures)
    /\ pc[futures[collected + 1]] = "done"
    /\ collected' = collected + 1
    /\ UNCHANGED <<args, summary, window, fs, dirs, pc, loc, idx, futures, results, processed,
                   events, emitters, writes>>

\* Lines 174-176: future.result() blocks until the job has returned.
\* It raises the exception of a job that raised.
Collect ==
    /\ pc[0] = "loop"
    /\ idx > total_files
    /\ collected < Len(futures)
    /\ pc[futures[collected + 1]] \in {"done", "raised"}
    /\ IF pc[futures[collected + 1]] = "done"
       THEN /\ results' = Append(results, loc[futures[collected + 1]].result)
            /\ collected' = collected + 1
            /\ UNCHANGED pc
       ELSE /\ pc' = [pc EXCEPT ![0] = "unwinding"]
            /\ UNCHANGED <<results, collected>>
    /\ UNCHANGED <<args, summary, window, fs, dirs, loc, idx, futures, processed, events,
                   emitters, writes>>

\* Mutant of BatchCompleted: batch_completed is sent once the loop over
\* input_files has ended, without waiting for the futures.
BatchCompletedEarly ==
    /\ pc[0] = "loop"
    /\ idx > total_files
    /\ IF callback
       THEN /\ events' = Append(events, [status |-> "batch_completed", results |-> results])
            /\ emitters' = Append(emitters, 0)
       ELSE UNCHANGED <<events, emitters>>
    /\ pc' = [pc EXCEPT ![0] = "done"]
    /\ UNCHANGED <<args, summary, window, fs, dirs, loc, idx, collected, futures, results,
                   processed, writes>>

\* Lines 177-181: leaving the with block shuts the executor down, which
\* waits for every submitted job; then batch_completed is sent and the
\* results are returned, or the exception that left the block is raised.
BatchCompleted ==
    /\ pc[0] \in {"loop", "unwinding"}
    /\ pc[0] = "loop" => (idx > total_files /\ collected = Len(futures))
    /\ \A j \in Range(futures) : pc[j] \in {"done", "raised"}
    /\ IF pc[0] = "loop" /\ callback
       THEN /\ events' = Append(events, [status |-> "batch_completed", results |-> results])
            /\ emitters' = Append(emitters, 0)
       ELSE UNCHANGED <<events, emitters>>
    /\ pc' = [pc EXCEPT ![0] =
                 IF pc[0] = "unwinding" \/ (callback /\ "batch_completed" \in raises)
                 THEN "raised" ELSE "done"]
    /\ UNCHANGED <<args, summary, window, fs, dirs, loc, idx, collected, futures, results,
                   processed, writes>>

\* --------------------------------------------------- ThreadPoolExecutor
\* Mutant of Running: the pool counts only the jobs that are writing.
RunningWriters == {j \in Jobs : pc[j] \in {"save_open", "save_write"}}

\* Jobs inside compress_image.
Running == {j \in Jobs : pc[j] \notin {"idle", "queued", "done", "raised"}}

\* Mutant of StartJob: the pool keeps one worker fewer than max_workers.
StartJobOneWorkerShort(i) ==
    /\ pc[i] = "queued"
    /\ \A j \in Jobs : pc[j] = "queued" => i <= j
    /\ Cardinality({j \in Jobs : pc[j] \notin {"idle", "queued", "done", "raised"}})
          < max_workers - 1
    /\ pc' = [pc EXCEPT ![i] = "exists"]
    /\ UNCHANGED <<args, summary, window, fs, dirs, loc, idx, collected, futures, results,
                   processed, events, emitters, writes>>

\* A free worker takes the oldest queued job.
StartJob(i) ==
    /\ pc[i] = "queued"
    /\ \A j \in Jobs : pc[j] = "queued" => i <= j
    /\ Cardinality(Running) < max_workers
    /\ pc' = [pc EXCEPT ![i] = "exists"]
    /\ UNCHANGED <<args, summary, window, fs, dirs, loc, idx, collected, futures, results,
                   processed, events, emitters, writes>>

\* --------------------------------------------------- compress_image (44-114)
Faulty(i, step) == fault.job = i /\ fault.step = step

\* Lines 45-56: the existence test, the default output path, "started".
Exists(i) ==
    /\ pc[i] = "exists"
    /\ IF fs[input_files[i]] = Missing
       THEN Raise(i, "Input file not found")
       ELSE /\ pc' = [pc EXCEPT ![i] = "cb_read"]
            /\ loc' = [loc EXCEPT
                 ![i].output_path =
                     IF @ = None THEN DefaultOutputPath(input_files[i]) ELSE @,
                 ![i].ev = [status |-> "started", input_path |-> input_files[i]],
                 ![i].ret = "getsize_in"]
    /\ UNCHANGED <<args, summary, window, fs, dirs, idx, collected, futures, results, processed,
                   events, emitters, writes>>

\* Line 59: original_size = os.path.getsize(input_path)
GetsizeIn(i) ==
    /\ pc[i] = "getsize_in"
    /\ IF Faulty(i, "getsize_in") \/ fs[input_files[i]] = Missing
       THEN Raise(i, "getsize failed")
       ELSE /\ loc' = [loc EXCEPT ![i].original_size = fs[input_files[i]]]
            /\ pc' = [pc EXCEPT ![i] = "open"]
    /\ UNCHANGED <<args, summary, window, fs, dirs, idx, collected, futures, results, processed,
                   events, emitters, writes>>

\* Lines 62-65: Image.open and convert; an empty file is no image.
Open(i) ==
    /\ pc[i] = "open"
    /\ IF Faulty(i, "open") \/ fs[input_files[i]] <= 0
       THEN Raise(i, "cannot identify image file")
       ELSE /\ pc' = [pc EXCEPT ![i] = "makedirs"]
            /\ UNCHANGED loc
    /\ UNCHANGED <<args, summary, window, fs, dirs, idx, collected, futures, results, processed,
                   events, emitters, writes>>

\* Line 68: os.makedirs(os.path.dirname(output_path), exist_ok=True); the
\* empty path is no directory and makedirs raises FileNotFoundError for it.
Makedirs(i) ==
    /\ pc[i] = "makedirs"
    /\ IF Faulty(i, "makedirs") \/ Dirname(loc[i].output_path) = <<>>
       THEN /\ Raise(i, "makedirs failed")
            /\ UNCHANGED dirs
       ELSE /\ dirs' = dirs \cup {Dirname(loc[i].output_path)}
            /\ pc' = [pc EXCEPT ![i] = "save_open"]
            /\ UNCHANGED loc
    /\ UNCHANGED <<args, summary, window, fs, idx, collected, futures, results, processed,
                   events, emitters, writes>>

\* Lines 71-77: img.save loads the pixels of the input, then opens
\* output_path for writing, which creates or truncates it ...
SaveOpen(i) ==
    /\ pc[i] = "save_open"
    /\ IF \/ Faulty(i, "save")
          \/ fs[input_files[i]] <= 0
          \/ Dirname(loc[i].output_path) \notin dirs
       THEN /\ Raise(i, "save failed")
            /\ UNCHANGED <<fs, writes>>
       ELSE /\ fs' = [fs EXCEPT ![loc[i].output_path] = 0]
            /\ writes' = writes \cup {<<i, loc[i].output_path>>}
            /\ pc' = [pc EXCEPT ![i] = "save_write"]
            /\ UNCHANGED loc
    /\ UNCHANGED <<args, summary, window, dirs, idx, collected, futures, results, processed,
                   events, emitters>>

\* ... and writes the encoded image (with optimize=True the encoder works at
\* its best level whatever compress_level=self.optimization_level says); then
\* "processing" is reported (79-80).
SaveWrite(i) ==
    /\ pc[i] = "save_write"
    /\ \E size \in CodecSizes : fs' = [fs EXCEPT ![loc[i].output_path] = size]
    /\ Call(i, [status |-> "processing", input_path |-> input_files[i], progress |-> 50],
            "getsize_out", NoResult)
    /\ UNCHANGED <<args, summary, window, dirs, idx, collected, futures, results, processed,
                   events, emitters, writes>>

\* Mutant of PercentageSaved: the fraction saved, not multiplied by 100.
PercentageSavedAsFraction(size_reduction, original_size) ==
    IF original_size > 0 THEN Ratio(size_reduction, original_size) ELSE Ratio(0, 1)

\* Lines 84-88: (size_reduction / original_size) * 100 if original_size > 0
\* else 0, kept as the exact fraction.
PercentageSaved(size_reduction, original_size) ==
    IF original_size > 0 THEN Ratio(size_reduction * 100, original_size) ELSE Ratio(0, 1)

\* Mutant of SuccessResult: the success result also carries an error message.
SuccessResultWithError(i, new_size) ==
    [input_path |-> input_files[i],
     output_path |-> loc[i].output_path,
     original_size |-> loc[i].original_size,
     new_size |-> new_size,
     bytes_saved |-> loc[i].original_size - new_size,
     percentage_saved |-> PercentageSaved(loc[i].original_size - new_size,
                                          loc[i].original_size),
     error |-> "",
     success |-> TRUE]

\* Lines 90-98
SuccessResult(i, new_size) ==
    [input_path |-> input_files[i],
     output_path |-> loc[i].output_path,
     original_size |-> loc[i].original_size,
     new_size |-> new_size,
     bytes_saved |-> loc[i].original_size - new_size,
     percentage_saved |-> PercentageSaved(loc[i].original_size - new_size,
                                          loc[i].original_size),
     success |-> TRUE]

\* Lines 83-101: new_size = os.path.getsize(output_path), the result, "completed".
GetsizeOut(i) ==
    /\ pc[i] = "getsize_out"
    /\ IF Faulty(i, "getsize_out") \/ fs[loc[i].output_path] = Missing
       THEN Raise(i, "getsize failed")
       ELSE /\ pc' = [pc EXCEPT ![i] = "cb_read"]
            /\ loc' = [loc EXCEPT
                 ![i].ev = Merge([status |-> "completed"],
                                 SuccessResult(i, fs[loc[i].output_path])),
                 ![i].ret = "done",
                 ![i].result = SuccessResult(i, fs[loc[i].output_path])]
    /\ UNCHANGED <<args, summary, window, fs, dirs, idx, collected, futures, results, processed,
                   events, emitters, writes>>

\* ------------------------------------------------------ cli_main (665-678)
RECURSIVE SumOf(_, _)
\* sum(r.get(field, 0) for r in rs)
SumOf(rs, field) ==
    IF rs = <<>> THEN 0
    ELSE (IF field \in DOMAIN Head(rs) THEN Head(rs)[field] ELSE 0) + SumOf(Tail(rs), field)

\* [r for r in results if r.get("success")]
Successful(rs) == SelectSeq(rs, LAMBDA r : "success" \in DOMAIN r /\ r.success)

RECURSIVE SumOfPercentages(_)
\* sum(r.get("percentage_saved", 0) for r in rs), as the exact fraction
SumOfPercentages(rs) ==
    IF rs = <<>> THEN Ratio(0, 1)
    ELSE LET p == IF "percentage_saved" \in DOMAIN Head(rs)
                  THEN Head(rs).percentage_saved ELSE Ratio(0, 1)
             q == SumOfPercentages(Tail(rs))
         IN  Ratio(p[1] * q[2] + q[1] * p[2], p[2] * q[2])

\* Mutant of AvgReduction: the mean is taken over all results.
AvgReductionOverAll(rs) ==
    IF Successful(rs) # <<>>
    THEN Ratio(SumOfPercentages(Successful(rs))[1],
               SumOfPercentages(Successful(rs))[2] * Len(rs))
    ELSE Ratio(0, 1)

\* Lines 670-673: the mean of percentage_saved over the successes, as the
\* exact fraction.
AvgReduction(rs) ==
    IF Successful(rs) # <<>>
    THEN Ratio(SumOfPercentages(Successful(rs))[1],
               SumOfPercentages(Successful(rs))[2] * Len(Successful(rs)))
    ELSE Ratio(0, 1)

BatchSummary(rs) ==
    [successful |-> Len(Successful(rs)),
     total |-> Len(rs),
     total_original |-> SumOf(Successful(rs), "original_size"),
     total_new |-> SumOf(Successful(rs), "new_size"),
     total_saved |-> SumOf(Successful(rs), "original_size") - SumOf(Successful(rs), "new_size"),
     avg_reduction |-> AvgReduction(rs)]

\* The summary printed once batch_compress has returned.
Summarize ==
    /\ pc[0] = "done"
    /\ summary = NoSummary
    /\ summary' = BatchSummary(results)
    /\ UNCHANGED <<args, window, fs, dirs, pc, loc, idx, collected, futures, results,
                   processed, events, emitters, writes>>

\* ---------------------------------------------------------- specification
Next ==
    \/ BatchStarted
    \/ CreateExecutor
    \/ Reject
    \/ Submit
    \/ Collect
    \/ BatchCompleted
    \/ Summarize
    \/ \E i \in Jobs : StartJob(i)
    \/ \E i \in Jobs : Exists(i)
    \/ \E i \in Jobs : GetsizeIn(i)
    \/ \E i \in Jobs : Open(i)
    \/ \E i \in Jobs : Makedirs(i)
    \/ \E i \in Jobs : SaveOpen(i)
    \/ \E i \in Jobs : SaveWrite(i)
    \/ \E i \in Jobs : GetsizeOut(i)
    \/ \E t \in Threads : CbRead(t)
    \/ \E t \in Threads : CbWrite(t)
    \/ \E t \in Threads : CbProgress(t)
    \/ \E t \in Threads : CbEmit(t)

Spec == Init /\ [][Next]_vars

\* Every codec and file system call returns and the operating system keeps
\* running some thread that can take a step.
FairSpec == InitFrom(FairPool) /\ [][Next]_vars /\ WF_vars(Next)

\* Calls of the library: batches over FairPool on a compressor of any level
\* of Levels, with a callback that may raise for one status.
Levels == {0, DefaultLevel, 10}

LibInit ==
    /\ InitWith(FairPool,
                {{}} \cup {{st} : st \in Statuses},
                Levels)
    /\ callback
    /\ fault = NoFault
    /\ raises = {} \/ optimization_level = DefaultLevel

LibSpec == LibInit /\ [][Next]_vars

\* ------------------------------------------------------ the GUI (184-584)
RECURSIVE AddFiles(_, _)
\* Lines 459-462: the paths of files that end in .png and are not listed yet
\* are appended to the list.
AddFiles(list, files) ==
    IF files = <<>> THEN list
    ELSE AddFiles(IF Head(files) \notin Range(list) /\ IsPng(Head(files))
                  THEN Append(list, Head(files)) ELSE list,
                  Tail(files))

\* Lines 457-464: add_files, which ends by enabling the Compress button when
\* the list is not empty.
AddFilesTo(w, files) ==
    [w EXCEPT !.input_files = AddFiles(w.input_files, files),
              !.compress_btn = Len(AddFiles(w.input_files, files)) > 0]

\* Lines 239-247: files are dropped onto the file list, which takes drops
\* at any time; the existing .png files among them go to add_files.
DropEvent(urls) ==
    LET files == SelectSeq(urls, LAMBDA path : fs[path] # Missing /\ IsPng(path))
    IN  /\ window' = IF files # <<>> THEN AddFilesTo(window, files) ELSE window
        /\ UNCHANGED <<args, summary, fs, dirs, pc, loc, idx, collected, futures,
                       results, processed, events, emitters, writes>>

\* Lines 446-455: the Add Files button opens the file dialog.
BrowseFiles(files) ==
    /\ window.add_files_btn
    /\ window' = IF files # <<>> THEN AddFilesTo(window, files) ELSE window
    /\ UNCHANGED <<args, summary, fs, dirs, pc, loc, idx, collected, futures,
                   results, processed, events, emitters, writes>>

\* Lines 466-470: the Clear List button.
ClearFiles ==
    /\ window.clear_files_btn
    /\ window' = [window EXCEPT !.input_files = <<>>, !.compress_btn = FALSE]
    /\ UNCHANGED <<args, summary, fs, dirs, pc, loc, idx, collected, futures,
                   results, processed, events, emitters, writes>>

\* Lines 488-514: a click on the enabled Compress button disables the
\* buttons and starts a new CompressionWorker.
StartCompression ==
    /\ window.compress_btn
    /\ \E w \in Workers : window.workers[w] = "none"
    /\ LET w == CHOOSE x \in Workers :
                    window.workers[x] = "none"
                    /\ \A y \in Workers : window.workers[y] = "none" => x <= y
       IN  window' = IF window.input_files = <<>> THEN window
                     ELSE [window EXCEPT !.compress_btn = FALSE,
                                         !.add_files_btn = FALSE,
                                         !.clear_files_btn = FALSE,
                                         !.out_dir_btn = FALSE,
                                         !.current_worker = w,
                                         !.workers[w] = "running"]
    /\ UNCHANGED <<args, summary, fs, dirs, pc, loc, idx, collected, futures,
                   results, processed, events, emitters, writes>>

\* Lines 197-203: the worker's batch_compress returns and the worker emits
\* compression_finished, which is queued for the GUI thread.
WorkerRun(w) ==
    /\ window.workers[w] = "running"
    /\ window' = [window EXCEPT !.workers[w] = "finished"]
    /\ UNCHANGED <<args, summary, fs, dirs, pc, loc, idx, collected, futures,
                   results, processed, events, emitters, writes>>

\* Lines 559-565: compression_completed enables the buttons again.
CompressionCompleted(w) ==
    /\ window.workers[w] = "finished"
    /\ window' = [window EXCEPT !.compress_btn = TRUE,
                                !.add_files_btn = TRUE,
                                !.clear_files_btn = TRUE,
                                !.out_dir_btn = TRUE,
                                !.workers[w] = "completed"]
    /\ UNCHANGED <<args, summary, fs, dirs, pc, loc, idx, collected, futures,
                   results, processed, events, emitters, writes>>

\* What the user drops or picks at once: up to two paths of the pool.
MaxDropped == 2

GuiNext ==
    \/ \E urls \in SeqsUpTo(PathPool, MaxDropped) : DropEvent(urls)
    \/ \E files \in SeqsUpTo(PathPool, MaxDropped) : BrowseFiles(files)
    \/ ClearFiles
    \/ StartCompression
    \/ \E w \in Workers : WorkerRun(w)
    \/ \E w \in Workers : CompressionCompleted(w)

\* The window after construction, with some of the pool's paths naming no
\* file; no batch_compress of the command line is running.
GuiInit ==
    /\ input_files = <<>>
    /\ output_dir = None
    /\ max_workers = 1
    /\ callback = TRUE
    /\ raises = {}
    /\ optimization_level = DefaultLevel
    /\ fault = NoFault
    /\ absent \in {a \in SUBSET PathPool : Cardinality(a) <= MaxMissing}
    /\ \E size \in FileSizes :
          fs = [p \in AllPaths |->
                  IF p \in PathPool /\ p \notin absent THEN size ELSE Missing]
    /\ dirs = {Dirname(p) : p \in {q \in PathPool : Dirname(q) # <<>>}}
    /\ pc = [t \in Threads |-> IF t = 0 THEN "start" ELSE "idle"]
    /\ loc = [t \in Threads |-> InitLocals]
    /\ idx = 1
    /\ collected = 0
    /\ futures = <<>>
    /\ results = <<>>
    /\ processed = 0
    /\ events = <<>>
    /\ emitters = <<>>
    /\ writes = {}
    /\ summary = NoSummary
    /\ window = MainWindowInit

GuiSpec == GuiInit /\ [][GuiNext]_vars

\* ------------------------------------------------------------ properties
\* The paths of the pool that end in ".png" whatever the case, written out.
PngPaths == {Str_a_PNG, Str_d_a_PNG, Str_d_a_compressed_PNG}

Returned == pc[0] = "done"

\* The events that went through process_callback.
JobEvents == {k \in 1..Len(events) : "overall_progress" \in DOMAIN events[k]}

\* C1: when batch_compress returns, the i-th result describes the i-th input
\* path, rejected paths included.
C1_InputOrder ==
    Returned =>
        /\ Len(results) = total_files
        /\ \A k \in 1..total_files : results[k].input_path = input_files[k]

\* C2: in a batch of PNG paths of which exactly one names no file, the
\* returned results hold exactly one failure, at the position of that path.
C2_PartialFailure ==
    ( /\ Returned
      /\ fault = NoFault
      /\ \A k \in 1..total_files : input_files[k] \in PngPaths
      /\ Cardinality({k \in 1..total_files : input_files[k] \in absent}) = 1 )
    => /\ Len(results) = total_files
       /\ \A k \in 1..total_files :
             results[k].success = (input_files[k] \notin absent)

\* C3: batch_compress returns exactly one result per input path: as many
\* results as inputs, and every path as often among the results as among the
\* inputs.
C3_OneResultPerInput ==
    Returned =>
        /\ Len(results) = total_files
        /\ \A p \in PathPool :
              Cardinality({k \in 1..Len(results) : results[k].input_path = p})
                  = Cardinality({k \in 1..total_files : input_files[k] = p})

C3_Witness ==
    /\ Returned
    /\ max_workers = 2
    /\ Len(futures) = 2
    /\ Len(results) = 2

\* C4: the completed-job counter never exceeds the number of jobs, no event
\* carries overall_progress above 100, and the counter equals the number of
\* jobs once batch_completed is emitted.
C4_CounterBounded ==
    /\ processed <= total_files
    /\ \A k \in JobEvents :
          events[k].overall_progress[1] <= 100 * events[k].overall_progress[2]
    /\ (callback /\ Returned) => processed = total_files

\* C5: with two or more workers no increment of the counter is lost and the
\* events reach the callback in strictly increasing counter order (so no two
\* carry the same counter value).
C5_AtomicCounter ==
    max_workers >= 2 =>
        /\ \A k, m \in JobEvents :
              k < m => events[k].overall_progress[1] < events[m].overall_progress[1]
        /\ (callback /\ Returned) => processed = Cardinality(JobEvents)

\* C6: with a callback, batch_started is the first event and precedes every
\* dispatch; batch_completed is the last event, is emitted only when every
\* job has its terminal result, and carries the full result sequence; no job
\* event lies before batch_started or after batch_completed.
C6_BatchEventsBracket ==
    callback =>
        /\ (futures # <<>> \/ results # <<>> \/ processed > 0) => events # <<>>
        /\ \A k \in 1..Len(events) :
              /\ (events[k].status = "batch_started") = (k = 1)
              /\ events[k].status = "batch_completed" =>
                    /\ k = Len(events)
                    /\ Returned
                    /\ \A j \in Jobs : pc[j] \in {"idle", "done"}
                    /\ \A j \in Range(futures) : "success" \in DOMAIN loc[j].result
                    /\ idx > total_files
                    /\ events[k].results = results
                    /\ Len(results) = total_files
        /\ Returned => events[Len(events)].status = "batch_completed"

C6_Witness ==
    /\ callback
    /\ Returned
    /\ Len(futures) = 1
    /\ total_files = 2
    /\ Len(events) > 3
    /\ events[Len(events)].status = "batch_completed"

\* What str(e) is for a failure at each step.
FaultMessage(step) ==
    CASE step = "getsize_in" -> "getsize failed"
      [] step = "open" -> "cannot identify image file"
      [] step = "makedirs" -> "makedirs failed"
      [] step = "save" -> "save failed"
      [] step = "getsize_out" -> "getsize failed"

ErrorMessages ==
    {"Input file not found"} \cup {FaultMessage(step) : step \in FaultSteps}

\* C7: a job whose step fails (input missing, decode, directory creation,
\* write, size measurement) ends by returning a result with success = FALSE
\* that carries the error message, and has sent an error event with that
\* message; the batch itself raises only for max_workers <= 0.
C7_FailuresReturned ==
    /\ pc[0] = "raised" => (max_workers <= 0 /\ futures = <<>>)
    /\ \A i \in Jobs :
          pc[i] = "done" =>
             LET r == loc[i].result
             IN  /\ "success" \in DOMAIN r
                 /\ fault.job = i => ~r.success
                 /\ ( /\ input_files[i] \in absent
                      /\ \A w \in writes : w[2] # input_files[i] )
                    => (~r.success /\ r.error = "Input file not found")
                 /\ ~r.success =>
                       /\ r.error \in ErrorMessages
                       /\ callback =>
                             \E k \in 1..Len(events) :
                                /\ emitters[k] = i
                                /\ events[k].status = "error"
                                /\ events[k].error = r.error
                                /\ events[k].success = FALSE

C7_Witness ==
    /\ callback
    /\ Returned
    /\ \E i \in Jobs :
          /\ pc[i] = "done"
          /\ fault = [job |-> i, step |-> "save"]
          /\ loc[i].result.success = FALSE
          /\ loc[i].result.error = "save failed"
          /\ events[Len(events) - 1].status = "error"

\* C8: a path is submitted to the pool if and only if it ends in ".png" in
\* any case; every other path is recorded at once as a failed result saying
\* it is not a PNG file, never becomes a job and never reaches the codec.
C8_OnlyPngDispatched ==
    \A k \in 1..total_files :
        /\ k \in Range(futures) => input_files[k] \in PngPaths
        /\ k < idx => (k \in Range(futures) <=> input_files[k] \in PngPaths)
        /\ input_files[k] \notin PngPaths =>
              /\ pc[k] = "idle"
              /\ \A w \in writes : w[1] # k
              /\ k < idx =>
                    \E m \in 1..Len(results) :
                       results[m] = [input_path |-> input_files[k],
                                     error |-> "Not a PNG file",
                                     success |-> FALSE]

C8_Witness ==
    /\ Returned
    /\ total_files = 2
    /\ input_files[1] \in PngPaths
    /\ input_files[2] \notin PngPaths
    /\ futures = <<1>>
    /\ loc[1].result.success = TRUE

\* C10: no job writes a file that is an input of the batch, its own input or
\* another job's.
C10_InputsUntouched ==
    \A w \in writes : w[2] \notin Range(input_files)

\* C9: under fair scheduling every job submitted to the pool reaches its
\* terminal result and batch_compress ends; it never returns while a
\* submitted job is still queued or running.
C9_JobsTerminate ==
    /\ <>(pc[0] \in {"done", "raised"} /\ \A j \in Range(futures) : pc[j] = "done")
    /\ [](Returned => \A j \in Range(futures) : pc[j] = "done")

C9_Witness ==
    /\ Returned
    /\ Len(futures) = 2
    /\ max_workers = 1
    /\ \A j \in Jobs : pc[j] = "done"

\* The output path of each PNG path of the pool, written out: beside the
\* input without output_dir, in output_dir with it.
Str_PNG == <<".", "P", "N", "G">>

ExpectedOutputPath(input_path, outdir) ==
    CASE input_path = Str_a_PNG /\ outdir = None ->
            <<"a">> \o CompressedSuffix \o Str_PNG
      [] input_path = Str_a_PNG /\ outdir = Str_d ->
            <<"d", "/", "a">> \o CompressedSuffix \o Str_PNG
      [] input_path = Str_d_a_PNG ->
            <<"d", "/", "a">> \o CompressedSuffix \o Str_PNG
      [] input_path = Str_d_a_compressed_PNG ->
            <<"d", "/", "a">> \o CompressedSuffix \o CompressedSuffix \o Str_PNG

AfterExists == {"getsize_in", "open", "makedirs", "save_open", "save_write", "getsize_out"}

C12_OnlyConfigurationFails ==
    /\ max_workers <= 0 =>
          /\ pc[0] \in {"start", "executor", "raised"}
          /\ futures = <<>>
          /\ writes = {}
          /\ \A k \in 1..Len(events) : events[k].status = "batch_started"
    /\ pc[0] = "raised" => max_workers <= 0

\* C13: a batch run on an ImageCompressor whose level is outside 1..9 is
\* refused before any job runs: no job is submitted or started and no job
\* produces a result.
C13_LevelRefused ==
    optimization_level \notin 1..9 =>
        /\ futures = <<>>
        /\ \A i \in Jobs : pc[i] = "idle" /\ loc[i].result = NoResult

SuccessFields == {"new_size", "bytes_saved", "percentage_saved"}

\* The results compress_image has built and batch_compress has gathered.
ProducedResults ==
    {results[k] : k \in 1..Len(results)}
        \cup {loc[i].result : i \in {j \in Jobs : "success" \in DOMAIN loc[j].result}}

\* C14: every result carries new_size, bytes_saved and percentage_saved and
\* no error message when success is true, and an error message and none of
\* the three when success is false.
C14_SuccessXorError ==
    \A r \in ProducedResults :
        IF r.success
        THEN SuccessFields \subseteq DOMAIN r /\ "error" \notin DOMAIN r
        ELSE "error" \in DOMAIN r /\ r.error # "" /\ SuccessFields \cap DOMAIN r = {}

C14_Witness ==
    /\ Returned
    /\ \E k \in 1..Len(results) : results[k].success
    /\ \E k \in 1..Len(results) : ~results[k].success

\* C15: in every successful result bytes_saved = original_size - new_size,
\* and percentage_saved is bytes_saved / original_size * 100 when
\* original_size > 0 and 0 when original_size = 0.
C15_SavingsArithmetic ==
    \A r \in ProducedResults :
        r.success =>
            /\ r.bytes_saved = r.original_size - r.new_size
            /\ r.percentage_saved[2] # 0
            /\ r.original_size > 0 =>
                  r.percentage_saved[1] * r.original_size
                      = r.bytes_saved * 100 * r.percentage_saved[2]
            /\ r.original_size = 0 => r.percentage_saved[1] = 0

C15_Witness ==
    /\ \E k \in 1..Len(results) :
          results[k].success /\ results[k].original_size = 0 /\ results[k].new_size > 0
    /\ \E k \in 1..Len(results) :
          results[k].success /\ results[k].original_size > 0 /\ results[k].bytes_saved > 0

\* The positions of the successful results among the returned ones.
SuccessAt == {k \in 1..Len(results) : results[k].success}

RECURSIVE SumOver(_, _)
\* The sum of field over the results at the positions ks.
SumOver(ks, field) ==
    IF ks = {} THEN 0
    ELSE LET k == CHOOSE x \in ks : TRUE
         IN  results[k][field] + SumOver(ks \ {k}, field)

RECURSIVE DenProduct(_)
\* The product of the denominators of percentage_saved at the positions ks.
DenProduct(ks) ==
    IF ks = {} THEN 1
    ELSE LET k == CHOOSE x \in ks : TRUE
         IN  results[k].percentage_saved[2] * DenProduct(ks \ {k})

RECURSIVE ScaledSum(_, _)
\* The sum of percentage_saved over the positions ks, multiplied by
\* DenProduct(all).
ScaledSum(ks, all) ==
    IF ks = {} THEN 0
    ELSE LET k == CHOOSE x \in ks : TRUE
         IN  results[k].percentage_saved[1] * DenProduct(all \ {k})
                 + ScaledSum(ks \ {k}, all)

\* C16: the summary of the returned results counts only the successes: the
\* total saved is the total original size minus the total new size of the
\* successful results (the sum of their bytes_saved), the average is the
\* mean of their percentage_saved and 0 when there is none, and the summary
\* reports the number of successes out of the number of all results.
C16_SummaryOverSuccesses ==
    summary # NoSummary =>
        /\ summary.successful = Cardinality(SuccessAt)
        /\ summary.total = Len(results)
        /\ summary.total_original = SumOver(SuccessAt, "original_size")
        /\ summary.total_new = SumOver(SuccessAt, "new_size")
        /\ summary.total_saved = summary.total_original - summary.total_new
        /\ summary.total_saved = SumOver(SuccessAt, "bytes_saved")
        /\ summary.avg_reduction[2] # 0
        /\ SuccessAt = {} => summary.avg_reduction[1] = 0
        /\ SuccessAt # {} =>
              summary.avg_reduction[1] * Cardinality(SuccessAt) * DenProduct(SuccessAt)
                  = summary.avg_reduction[2] * ScaledSum(SuccessAt, SuccessAt)

C16_Witness ==
    /\ summary # NoSummary
    /\ Len(results) = 2
    /\ Cardinality(SuccessAt) = 1
    /\ summary.total_saved > 0
    /\ summary.avg_reduction[1] > 0

\* The positions in the event stream of the events job i has sent.
EventsOf(i) == {k \in 1..Len(events) : emitters[k] = i}

\* C17: a job that has ended, one whose input names no file included, has
\* sent exactly one started event, before any other of its events, and
\* exactly one terminal event (completed or error), which is its last.
C17_StartedThenTerminal ==
    callback =>
        \A i \in Range(futures) :
            pc[i] = "done" =>
                /\ Cardinality({k \in EventsOf(i) : events[k].status = "started"}) = 1
                /\ \A k \in EventsOf(i) :
                      events[k].status = "started" => \A m \in EventsOf(i) : k <= m
                /\ Cardinality({k \in EventsOf(i) :
                                   events[k].status \in {"completed", "error"}}) = 1
                /\ \A k \in EventsOf(i) :
                      events[k].status \in {"completed", "error"}
                          => \A m \in EventsOf(i) : m <= k

\* The same, for the jobs whose input exists when they test it.
C17_WithExistingInput ==
    (callback /\ absent = {}) => C17_StartedThenTerminal

\* C18: a job for an existing valid PNG with no explicit output path gets
\* through the directory step and ends with success = TRUE, whether its
\* input path has a directory component or is a bare file name.
C18_DefaultDirectoryExists ==
    \A i \in Range(futures) :
        ( /\ output_dir = None
          /\ fault = NoFault
          /\ absent = {}
          /\ total_files = 1
          /\ pc[i] = "done" )
        => loc[i].result.success

\* The same, for the inputs that have a directory component.
C18_WithDirectoryComponent ==
    (\A k \in 1..total_files : Dirname(input_files[k]) # <<>>) => C18_DefaultDirectoryExists

\* Every job that has derived its output path has one of its own, no two
\* jobs have opened the same file for writing, and the new_size of a
\* successful job is a size its own write has produced.
OutputsOwned ==
    /\ \A i, j \in Range(futures) :
          (i # j /\ loc[i].output_path # None /\ loc[j].output_path # None)
              => loc[i].output_path # loc[j].output_path
    /\ \A v, w \in writes : v[1] # w[1] => v[2] # w[2]
    /\ \A i \in Range(futures) :
          ("success" \in DOMAIN loc[i].result /\ loc[i].result.success)
              => loc[i].result.new_size \in CodecSizes

InCompressImage ==
    {i \in Jobs : pc[i] \in AfterExists \cup {"exists", "cb_read", "cb_write",
                                             "cb_progress", "cb_emit"}}

\* C20: at most max_workers jobs are inside compress_image at the same
\* time, and a submitted job leaves the queue only when fewer than
\* max_workers are.
C20_AtMostMaxWorkers ==
    /\ [](Cardinality(InCompressImage) <= max_workers \/ max_workers <= 0)
    /\ [](max_workers <= 0 => InCompressImage = {})
    /\ [][\A i \in Jobs :
             (pc[i] = "queued" /\ pc'[i] # "queued")
                 => Cardinality(InCompressImage) < max_workers]_vars

C20_Witness ==
    /\ max_workers = 1
    /\ \E i, j \in Range(futures) :
          /\ pc[i] = "save_write"
          /\ pc[j] = "queued"

\* The workers that have been started and whose compression_completed has
\* not run yet.
ActiveWorkers == {w \in Workers : window.workers[w] \in {"running", "finished"}}

\* C21: in the GUI at most one batch runs at a time: from start_compression
\* until compression_completed the Compress button stays disabled, whatever
\* the user does, so no second worker is started while one is running.
C21_SingleBatch ==
    /\ ActiveWorkers # {} => ~window.compress_btn
    /\ Cardinality(ActiveWorkers) <= 1

\* The batch has not raised (other than for max_workers <= 0), it returns
\* one result per input after a batch_completed event, and a job that has
\* delivered a completed event returns success = TRUE.
ExceptionContained ==
    /\ max_workers > 0 => pc[0] \notin {"unwinding", "raised"}
    /\ \A i \in Range(futures) : pc[i] # "raised"
    /\ Returned =>
          /\ Len(results) = total_files
          /\ events # <<>>
          /\ events[Len(events)].status = "batch_completed"
    /\ \A i \in Range(futures) :
          (pc[i] = "done" /\ \E k \in EventsOf(i) : events[k].status = "completed")
              => loc[i].result.success

\* C22: an exception the callback raises while it handles a job's event
\* (started, processing, completed or error) does not escape
\* batch_compress: the batch still returns one result per input and emits
\* batch_completed, and a job whose completed event was delivered is
\* returned with success = TRUE.  Checked for the batches of PNG paths,
\* whose events all come from jobs.
C22_CallbackExceptionContained ==
    ( /\ raises # {}
      /\ raises \subseteq {"started", "processing", "completed", "error"}
      /\ \A k \in 1..total_files : IsPng(input_files[k]) )
        => ExceptionContained

\* The same, for a callback that raises on started or processing only.
C22_BeforeCompleted ==
    (raises # {} /\ raises \subseteq {"started", "processing"}) => ExceptionContained

\* C23: batch_compress on an empty input list (with a valid max_workers)
\* does not raise and returns an empty result list; it emits exactly
\* batch_started with total 0 and then batch_completed with no results, and
\* never goes through process_callback, where overall_progress divides by
\* the total.
C23_EmptyBatch ==
    (input_files = <<>> /\ max_workers > 0) =>
        /\ pc[0] \in {"start", "executor", "loop", "done"}
        /\ futures = <<>>
        /\ processed = 0
        /\ JobEvents = {}
        /\ Returned =>
              /\ results = <<>>
              /\ events = IF callback
                          THEN <<[status |-> "batch_started", total |-> 0],
                                 [status |-> "batch_completed", results |-> <<>>]>>
                          ELSE <<>>

C23_Witness ==
    /\ input_files = <<>>
    /\ max_workers > 0
    /\ callback
    /\ Returned
    /\ Len(events) = 2
    /\ results = <<>>

====
